---- MODULE Spec2Model ----
(***************************************************************************)
(* PoE2 Flips API v13 (src/main.py): the trade-reference parser, the       *)
(* listing mapper, the three outbound calls and the request handlers.      *)
(*                                                                         *)
(* Strings are sequences of atoms.  An atom is either one of the single    *)
(* characters "/", "?", "#", " ", "x", or a word that holds none of these  *)
(* characters ("trade2", "search", "abc123", ...), so that a match of the  *)
(* regular expression on the atoms is a match on the characters.           *)
(***************************************************************************)
EXTENDS Integers, Sequences, FiniteSets, TLC

VARIABLES
    DEFAULT_ITEM,   \* env DEFAULT_ITEM
    QUERY_ID_ENV,   \* env QUERY_ID, stripped
    pc,             \* position of the handler of the current request
    route,          \* the route of the current request
    req,            \* its parameters
    loc,            \* the handler's local variables
    calls,          \* outbound calls issued for the current request, in order
    resp,           \* the body the handler returned
    p_in,           \* parser harness: the input handed to parse_trade_url
    p_out           \* parser harness: what it returned

vars == <<DEFAULT_ITEM, QUERY_ID_ENV, pc, route, req, loc, calls, resp, p_in, p_out>>

-----------------------------------------------------------------------------
(* Bounds of the model *)
MaxLimit == 2       \* limit ranges over 1..MaxLimit (the code admits 1..60)
MaxIds == 3         \* longest result list of a search reply
MaxNodes == 3       \* longest result list of a fetch reply
MaxRun == 7         \* longest run of "x" handed to the parser

-----------------------------------------------------------------------------
(* Strings *)

\* len() of one atom, in characters
AtomLen(a) ==
    CASE a = "trade2" -> 6
      [] a = "search" -> 6
      [] a = "abc123" -> 6
      [] a = "poe2" -> 4
      [] a = "LeagueX" -> 7
      [] OTHER -> 1

RECURSIVE StrLen(_)
StrLen(s) == IF s = <<>> THEN 0 ELSE AtomLen(Head(s)) + StrLen(Tail(s))

\* s[:n] on a sequence
Take(s, n) == SubSeq(s, 1, IF n < Len(s) THEN n ELSE Len(s))

IsSpace(a) == a = " "

\* str.strip()
RECURSIVE LStrip(_)
LStrip(s) == IF s # <<>> /\ IsSpace(Head(s)) THEN LStrip(Tail(s)) ELSE s

RECURSIVE RStrip(_)
RStrip(s) ==
    IF s # <<>> /\ IsSpace(s[Len(s)]) THEN RStrip(SubSeq(s, 1, Len(s) - 1)) ELSE s

Strip(s) == RStrip(LStrip(s))

\* urllib.parse.quote(s, safe=""), on the atoms a league name is made of
QuoteAtom(a) ==
    CASE a = " " -> "%20"
      [] a = "/" -> "%2F"
      [] a = "?" -> "%3F"
      [] a = "#" -> "%23"
      [] OTHER -> a

quote(s) == [i \in 1..Len(s) |-> QuoteAtom(s[i])]

\* Optional values
PyNone == [some |-> FALSE]
Some(v) == [some |-> TRUE, v |-> v]

-----------------------------------------------------------------------------
(* Env config *)
REALM == <<"poe2">>
LEAGUE_RAW == <<"Dawn", " ", "of", " ", "the", " ", "Hunt">>
LEAGUE_ENC == quote(LEAGUE_RAW)

-----------------------------------------------------------------------------
(* parse_trade_url *)

\* the literal head of TRADE_URL_RE
TRADE_URL_LIT == <<"/", "trade2", "/", "search", "/">>

\* length of the longest run of atoms outside `stop` that starts at s[i]
RECURSIVE RunLen(_, _, _)
RunLen(s, i, stop) ==
    IF i > Len(s) \/ s[i] \in stop THEN 0 ELSE 1 + RunLen(s, i + 1, stop)

\* MatchAt with the last group written [^/]+ : the query string leaks into the id
MatchAtLeaky(s, i) ==
    LET n  == Len(TRADE_URL_LIT)
        rs == i + n
        rl == RunLen(s, rs, {"/"})
        ls == rs + rl + 1
        ll == RunLen(s, ls, {"/"})
        qs == ls + ll + 1
        ql == RunLen(s, qs, {"/"})
    IN  IF /\ i + n - 1 <= Len(s)
           /\ SubSeq(s, i, i + n - 1) = TRADE_URL_LIT
           /\ rl > 0
           /\ rs + rl <= Len(s)
           /\ ll > 0
           /\ ls + ll <= Len(s)
           /\ ql > 0
        THEN Some([realm  |-> SubSeq(s, rs, rs + rl - 1),
                   league |-> SubSeq(s, ls, ls + ll - 1),
                   qid    |-> SubSeq(s, qs, qs + ql - 1)])
        ELSE PyNone

\* TRADE_URL_RE matched at position i of s: the three groups, or PyNone.
\* A group [^/]+ is greedy and the next thing to match is "/", so the group is
\* the whole run up to the next "/"; the last group runs up to "/", "?" or "#".
MatchAt(s, i) ==
    LET n  == Len(TRADE_URL_LIT)
        rs == i + n
        rl == RunLen(s, rs, {"/"})
        ls == rs + rl + 1
        ll == RunLen(s, ls, {"/"})
        qs == ls + ll + 1
        ql == RunLen(s, qs, {"/", "?", "#"})
    IN  IF /\ i + n - 1 <= Len(s)
           /\ SubSeq(s, i, i + n - 1) = TRADE_URL_LIT
           /\ rl > 0
           /\ rs + rl <= Len(s)
           /\ ll > 0
           /\ ls + ll <= Len(s)
           /\ ql > 0
        THEN Some([realm  |-> SubSeq(s, rs, rs + rl - 1),
                   league |-> SubSeq(s, ls, ls + ll - 1),
                   qid    |-> SubSeq(s, qs, qs + ql - 1)])
        ELSE PyNone

\* TRADE_URL_RE.search(s): the leftmost match
RECURSIVE SearchFrom(_, _)
SearchFrom(s, i) ==
    IF i > Len(s) THEN PyNone
    ELSE IF MatchAt(s, i).some THEN MatchAt(s, i)
    ELSE SearchFrom(s, i + 1)

TRADE_URL_RE_search(s) == SearchFrom(s, 1)

BareIdMinLen == 6

\* IsBareId with len(url_or_id) > 6
IsBareIdOffByOne(s) == "/" \notin {s[i] : i \in 1..Len(s)} /\ StrLen(s) > BareIdMinLen

IsBareId(s) == "/" \notin {s[i] : i \in 1..Len(s)} /\ StrLen(s) >= BareIdMinLen

\* parse_trade_url(url_or_id): Some([realm, league, qid]) or PyNone.
\* url_or_id is an Optional[str]: PyNone or Some(string).
parse_trade_url(url_or_id) ==
    IF ~url_or_id.some \/ url_or_id.v = <<>> THEN PyNone
    ELSE LET m == TRADE_URL_RE_search(url_or_id.v)
         IN  IF m.some THEN m
             ELSE IF IsBareId(url_or_id.v)
                  THEN Some([realm |-> REALM, league |-> LEAGUE_ENC, qid |-> url_or_id.v])
                  ELSE PyNone

-----------------------------------------------------------------------------
(* JSON values, as Python sees them after r.json() *)

JNull == [t |-> "null"]
JNum(n) == [t |-> "num", n |-> n]
JStr(s) == [t |-> "str", s |-> s]
JList(l) == [t |-> "list", l |-> l]
JObj(o) == [t |-> "obj", o |-> o]       \* a dict with the keys DOMAIN o
EmptyDict == [t |-> "emptydict"]        \* {}

IsDict(j) == j.t \in {"obj", "emptydict"}
Keys(d) == IF d.t = "obj" THEN DOMAIN d.o ELSE {}

\* bool(j)
Truthy(j) ==
    CASE j.t = "null" -> FALSE
      [] j.t = "num" -> j.n # 0
      [] j.t = "str" -> j.s # <<>>
      [] j.t = "list" -> j.l # <<>>
      [] j.t = "obj" -> TRUE
      [] j.t = "emptydict" -> FALSE

\* j or default
Or(j, default) == IF Truthy(j) THEN j ELSE default

\* d.get(k, default), for a dict d; on anything else .get is an AttributeError
Get(d, k, default) == IF k \in Keys(d) THEN d.o[k] ELSE default

Digit(d) ==
    CASE d = 0 -> "0" [] d = 1 -> "1" [] d = 2 -> "2" [] d = 3 -> "3" [] d = 4 -> "4"
      [] d = 5 -> "5" [] d = 6 -> "6" [] d = 7 -> "7" [] d = 8 -> "8" [] d = 9 -> "9"

\* str(n) for an int n >= 0
RECURSIVE IntStr(_)
IntStr(n) == IF n < 10 THEN <<Digit(n)>> ELSE IntStr(n \div 10) \o <<Digit(n % 10)>>

\* f"{j}"
Fmt(j) ==
    CASE j.t = "str" -> j.s
      [] j.t = "num" -> IntStr(j.n)
      [] j.t = "null" -> <<"None">>
      [] j.t = "list" -> <<"[...]">>
      [] OTHER -> <<"{...}">>

\* sep.join(strs)
RECURSIVE Join(_, _)
Join(strs, sep) ==
    IF strs = <<>> THEN <<>>
    ELSE IF Len(strs) = 1 THEN strs[1]
    ELSE strs[1] \o <<sep>> \o Join(Tail(strs), sep)

\* What a call or a block of the code ends with
Ret(v) == [tag |-> "ok", v |-> v]
Raise(exc) == [tag |-> "exc", exc |-> exc]
RaiseHTTPError(code, text) == [tag |-> "http", code |-> code, text |-> text]

-----------------------------------------------------------------------------
(* map_listing *)

SITE == <<"https:", "/", "/", "www.pathofexile.com">>

map_listing(res_item) ==
    IF ~IsDict(res_item) THEN Raise("AttributeError")
    ELSE
    LET listing == Or(Get(res_item, "listing", EmptyDict), EmptyDict)
        item    == Or(Get(res_item, "item", EmptyDict), EmptyDict)
    IN  IF ~IsDict(listing) THEN Raise("AttributeError")
        ELSE
        LET price == Or(Get(listing, "price", EmptyDict), EmptyDict)
        IN  IF ~IsDict(price) \/ ~IsDict(item) THEN Raise("AttributeError")
            ELSE
            LET amount   == Get(price, "amount", JNull)
                currency == Get(price, "currency", JNull)
                account  == Or(Get(listing, "account", JNull), EmptyDict)
            IN  IF ~IsDict(account) THEN Raise("AttributeError")
                ELSE Ret([
                    id       |-> Get(res_item, "id", JNull),
                    name     |-> Or(Get(item, "name", JNull), JStr(<<>>)),
                    baseType |-> Or(Get(item, "typeLine", JNull), JStr(<<>>)),
                    price    |-> amount,
                    currency |-> currency,
                    priceStr |-> IF amount.t # "null" /\ Truthy(currency)
                                 THEN Fmt(amount) \o Fmt(currency) ELSE <<>>,
                    seller   |-> Get(account, "name", JStr(<<>>)),
                    listedAt |-> Get(listing, "indexed", JNull),
                    tradeUrl |-> SITE \o TRADE_URL_LIT \o REALM \o <<"/">> \o LEAGUE_ENC
                                 \o <<"/">> \o Fmt(Get(res_item, "id", JStr(<<>>)))])

\* [map_listing(r) for r in nodes]: the listings, or the first exception raised
RECURSIVE MapAll(_)
MapAll(nodes) ==
    IF nodes = <<>> THEN Ret(<<>>)
    ELSE LET h == map_listing(Head(nodes))
         IN  IF h.tag # "ok" THEN h
             ELSE LET t == MapAll(Tail(nodes))
                  IN  IF t.tag # "ok" THEN t ELSE Ret(<<h.v>> \o t.v)

-----------------------------------------------------------------------------
(* The marketplace: what an outbound call can be answered with *)

\* requests follows redirects, so the status of a reply is 2xx, 4xx or 5xx
Statuses == {200, 204, 400, 429, 500}

DetailsMax == 200       \* [:200]
PreviewMax == 10        \* [:10]

\* r.text is known by its length; r.json() parses it or fails
TextLens == {0, DetailsMax + 50}
TextBody(n) == [len |-> n, json |-> PyNone]
JsonBody(j) == [len |-> DetailsMax + 50, json |-> Some(j)]

Http(s, b) == [kind |-> "http", status |-> s, body |-> b]
Transport(exc) == [kind |-> "transport", exc |-> exc]
TransportFailures == {Transport("ConnectionError"), Transport("ReadTimeout")}

ListingId(i) == JStr(<<"id">> \o IntStr(i))
IdList(k) == [i \in 1..k |-> ListingId(i)]
QID == <<"Q7">>     \* the id the marketplace gives a search by name or type

SearchJsons ==
    {JObj([id |-> JStr(QID), result |-> JList(IdList(k)), total |-> JNum(k)]) : k \in 0..MaxIds}
    \cup {JObj([result |-> JList(IdList(MaxIds))]),
          JObj([id |-> JStr(QID), result |-> JNull]),
          JObj([id |-> JStr(QID)]),
          JObj([id |-> JStr(QID), result |-> JList(<<ListingId(2), ListingId(1)>>)]),
          JObj([id |-> JStr(QID), result |-> JList(<<JNum(1), JNum(2)>>)]),
          JObj([id |-> JStr(QID), result |-> JNum(5)]),
          JList(<<>>)}

NodeFull ==
    JObj([id |-> ListingId(1),
          item |-> JObj([name |-> JStr(<<"Doom">>), typeLine |-> JStr(<<"Ring">>)]),
          listing |-> JObj([price |-> JObj([amount |-> JNum(5), currency |-> JStr(<<"chaos">>)]),
                            account |-> JObj([name |-> JStr(<<"seller">>)]),
                            indexed |-> JStr(<<"t0">>)])])
NodeBare == JObj([id |-> ListingId(2)])
NodeNulls ==
    JObj([id |-> ListingId(3), item |-> JNull,
          listing |-> JObj([price |-> JNull, account |-> JNull])])
NodeNullEntry == JNull
NodeBadListing == JObj([id |-> ListingId(2), listing |-> JStr(<<"x">>)])

Nodes == {NodeFull, NodeBare, NodeNulls, NodeNullEntry, NodeBadListing}
NodeLists == UNION {[1..k -> Nodes] : k \in 0..MaxNodes}

FetchJsons ==
    {JObj([result |-> JList(l)]) : l \in NodeLists}
    \cup {EmptyDict, JObj([result |-> JNull]), JObj([result |-> JNum(5)]), JList(<<>>)}

\* the JSON body of the marketplace's own error replies
ErrorJson ==
    JObj([error |-> JObj([code |-> JNum(3), message |-> JStr(<<"Rate limit exceeded">>)])])

\* statuses below 400 come with any body; the marketplace's 4xx and 5xx replies
\* carry text or its error object
SearchReplies ==
    TransportFailures
    \cup {Http(s, TextBody(n)) : s \in Statuses, n \in TextLens}
    \cup {Http(s, JsonBody(j)) : s \in {x \in Statuses : x < 400}, j \in SearchJsons}
    \cup {Http(s, JsonBody(ErrorJson)) : s \in {x \in Statuses : x >= 400}}

FetchReplies ==
    TransportFailures
    \cup {Http(s, TextBody(n)) : s \in Statuses, n \in TextLens}
    \cup {Http(s, JsonBody(j)) : s \in {x \in Statuses : x < 400}, j \in FetchJsons}
    \cup {Http(s, JsonBody(ErrorJson)) : s \in {x \in Statuses : x >= 400}}

\* r.raise_for_status()
raise_for_status(r) ==
    IF 400 <= r.status /\ r.status < 600
    THEN RaiseHTTPError(r.status, [len |-> r.body.len])
    ELSE Ret(JNull)

\* r.json()
r_json(r) == IF r.body.json.some THEN Ret(r.body.json.v) ELSE Raise("JSONDecodeError")

-----------------------------------------------------------------------------
(* Outbound calls *)

API == SITE \o <<"/", "api", "/", "trade2", "/">>

SearchCall(op, item) ==
    [op |-> op, url |-> API \o <<"search", "/">> \o REALM \o <<"/">> \o LEAGUE_ENC,
     item |-> item, status |-> 0, ok |-> FALSE]

SearchIdCall(realm, league_enc, qid) ==
    [op |-> "search_id",
     url |-> API \o <<"search", "/">> \o realm \o <<"/">> \o league_enc \o <<"/">> \o qid,
     qid |-> qid, status |-> 0, ok |-> FALSE]

FetchCall(ids, qid) ==
    [op |-> "fetch",
     url |-> API \o <<"fetch", "/">> \o Join([i \in 1..Len(ids) |-> ids[i].s], ",")
             \o <<"?", "query=">> \o Fmt(qid),
     ids |-> ids, qid |-> qid, status |-> 0, ok |-> FALSE]

\* the reply to the last call, noted in the log
Answered(cs, reply, ok) ==
    [cs EXCEPT ![Len(cs)].status = IF reply.kind = "http" THEN reply.status ELSE -1,
               ![Len(cs)].ok = ok]

-----------------------------------------------------------------------------
(* The code between an outbound call's reply and the next call or the return *)

Respond(body) == [tag |-> "respond", body |-> body]

\* requests.get/post, raise_for_status(), json(): the parsed body or the exception
checked_json(r) ==
    IF r.kind = "transport" THEN Raise(r.exc)
    ELSE LET s == raise_for_status(r)
         IN  IF s.tag # "ok" THEN s ELSE r_json(r)

\* poe_search_by_name_or_type, attempt 1: the reply to the search by 'type'
type_attempt(r) ==
    IF r.kind = "transport" THEN Raise(r.exc)
    ELSE IF r.status = 200
         THEN LET j == r_json(r)
              IN  IF j.tag = "ok" THEN Ret([which |-> "type", search |-> j.v]) ELSE j
         ELSE [tag |-> "attempt2"]

\* poe_search_by_name_or_type, attempt 2: the reply to the search by 'name'
name_attempt(r) ==
    LET j == checked_json(r)
    IN  IF j.tag = "ok" THEN Ret([which |-> "name", search |-> j.v]) ELSE j

\* poe_search_by_id: the reply to the search by id
poe_search_by_id(r) == checked_json(r)

\* poe_fetch up to its outbound call
poe_fetch(ids, qid) ==
    IF ids = <<>> THEN Ret(JObj([result |-> JList(<<>>)]))
    ELSE IF \E i \in 1..Len(ids) : ids[i].t # "str" THEN Raise("TypeError")
    ELSE [tag |-> "call", call |-> FetchCall(ids, qid)]

\* ResultSlice without the `or []`: d.get("result")[:n]
ResultSliceNoDefault(d, n) ==
    IF ~IsDict(d) THEN Raise("AttributeError")
    ELSE LET res == Get(d, "result", JNull)
         IN  IF res.t = "list" THEN Ret(Take(res.l, n)) ELSE Raise("TypeError")

\* (d.get("result") or [])[:n]
ResultSlice(d, n) ==
    IF ~IsDict(d) THEN Raise("AttributeError")
    ELSE LET res == Or(Get(d, "result", JNull), JList(<<>>))
         IN  IF res.t = "list" THEN Ret(Take(res.l, n)) ELSE Raise("TypeError")

\* deals, from the search's return to the fetch
deals_ids(which, search, limit) ==
    IF ~IsDict(search) THEN Raise("AttributeError")
    ELSE LET qid == Get(search, "id", JNull)
             ids == ResultSlice(search, limit)
         IN  IF ids.tag # "ok" THEN ids
             ELSE IF ~Truthy(qid) \/ ids.v = <<>>
                  THEN Respond([items |-> <<>>,
                                note |-> <<"search_ok_but_no_ids (mode=", which, ")">>])
                  ELSE [tag |-> "fetch", ids |-> ids.v, qid |-> qid]

\* deals_from_env and deals_by_url, from the search's return to the fetch
by_id_ids(rt, search_url, search, qid, limit) ==
    LET ids == ResultSlice(search, limit)
    IN  IF ids.tag # "ok" THEN ids
        ELSE IF ids.v = <<>>
             THEN IF rt = "/deals_from_env"
                  THEN Respond([items |-> <<>>, note |-> <<"search_ok_but_no_ids">>])
                  ELSE Respond([items |-> <<>>, note |-> <<"search_ok_but_no_ids">>,
                                search_url |-> search_url,
                                total |-> Get(search, "total", JNull)])
             ELSE [tag |-> "fetch", ids |-> ids.v, qid |-> JStr(qid)]

\* the debug routes, after the search's return
debug_body(rt, l, ret) ==
    LET data == IF rt = "/_debug/search_by_item" THEN ret.search ELSE ret
        prev == ResultSlice(data, PreviewMax)
    IN  IF ~IsDict(data) THEN Raise("AttributeError")
        ELSE IF prev.tag # "ok" THEN prev
        ELSE CASE rt = "/_debug/search_from_env" ->
                    Respond([ok |-> TRUE, realm |-> l.parts.v.realm,
                             league_enc |-> l.parts.v.league, qid |-> l.parts.v.qid,
                             search_url |-> l.search_url,
                             total |-> Get(data, "total", JNull), ids_preview |-> prev.v])
               [] rt = "/_debug/search_by_url" ->
                    Respond([ok |-> TRUE, search_url |-> l.search_url,
                             total |-> Get(data, "total", JNull), ids_preview |-> prev.v])
               [] OTHER ->
                    Respond([ok |-> TRUE, mode |-> ret.which,
                             total |-> Get(data, "total", JNull), ids_preview |-> prev.v])

\* mapped_items that returns mapped instead of mapped[:limit]
mapped_items_unsliced(fetched, limit) ==
    IF ~IsDict(fetched) THEN Raise("AttributeError")
    ELSE LET res == Or(Get(fetched, "result", JNull), JList(<<>>))
         IN  IF res.t # "list" THEN Raise("TypeError") ELSE MapAll(res.l)

\* mapped = [map_listing(r) for r in (fetched.get("result") or [])]; mapped[:limit]
mapped_items(fetched, limit) ==
    IF ~IsDict(fetched) THEN Raise("AttributeError")
    ELSE LET res == Or(Get(fetched, "result", JNull), JList(<<>>))
         IN  IF res.t # "list" THEN Raise("TypeError")
             ELSE LET m == MapAll(res.l)
                  IN  IF m.tag # "ok" THEN m ELSE Ret(Take(m.v, limit))

\* the return of the three deals handlers
deals_return(rt, l, fetched, limit) ==
    LET m == mapped_items(fetched, limit)
        total == Get(l.search, "total", JNull)
    IN  IF m.tag # "ok" THEN m
        ELSE CASE rt = "/deals" -> Respond([items |-> m.v, mode |-> l.which, total |-> total])
               [] rt = "/deals_from_env" -> Respond([items |-> m.v, total |-> total])
               [] OTHER -> Respond([items |-> m.v, search_url |-> l.search_url,
                                    total |-> total])

Min(a, b) == IF a < b THEN a ELSE b

\* on_error with `except requests.RequestException` for `except Exception`:
\* an exception of another class leaves the handler
on_error_narrow(e) ==
    IF e.tag = "http"
    THEN [items |-> <<>>, error |-> <<"http_error:">> \o IntStr(e.code),
          details |-> [len |-> Min(e.text.len, DetailsMax)]]
    ELSE IF e.exc \in {"ConnectionError", "ReadTimeout", "JSONDecodeError"}
         THEN [items |-> <<>>, error |-> <<"exception:", e.exc>>]
         ELSE [fault |-> e.exc]

\* except requests.HTTPError / except Exception of the deals handlers
on_error(e) ==
    IF e.tag = "http"
    THEN [items |-> <<>>, error |-> <<"http_error:">> \o IntStr(e.code),
          details |-> [len |-> Min(e.text.len, DetailsMax)]]
    ELSE [items |-> <<>>, error |-> <<"exception:", e.exc>>]

\* except requests.HTTPError / except Exception of the debug handlers
debug_on_error(e) ==
    IF e.tag = "http"
    THEN [ok |-> FALSE, status |-> e.code, text |-> [len |-> Min(e.text.len, DetailsMax)]]
    ELSE [ok |-> FALSE, error |-> <<e.exc>>]

-----------------------------------------------------------------------------
(* The request handlers *)

DealsRoutes == {"/deals", "/deals_from_env", "/deals_by_url"}
DebugRoutes == {"/_debug/search_from_env", "/_debug/search_by_url", "/_debug/search_by_item"}

NoResp == [pending |-> TRUE]
Req0 == [item |-> PyNone, url |-> <<>>, limit |-> 1]
Loc0 == [target |-> <<>>, parts |-> PyNone, which |-> "", search |-> JNull,
         search_url |-> <<>>, ids |-> <<>>, qid |-> JNull, fetched |-> JNull,
         exc |-> [tag |-> "none"]]

St(p, l, c, r) == [pc |-> p, loc |-> l, calls |-> c, resp |-> r]

\* the except clauses of the handler of route rt
Catch(rt, e) == IF rt \in DealsRoutes THEN on_error(e) ELSE debug_on_error(e)

\* the handler returns, or raises into its except clauses (e is the exception)
Finish(rt, out, l, cs) ==
    IF out.tag = "respond" THEN St("done", l, cs, out.body)
    ELSE St("done", [l EXCEPT !.exc = out], cs, Catch(rt, out))

\* fetched = poe_fetch(ids, qid) and what follows it
ToFetch(rt, o, l, cs, limit) ==
    LET f  == poe_fetch(o.ids, o.qid)
        l2 == [l EXCEPT !.ids = o.ids, !.qid = o.qid]
    IN  CASE f.tag = "call" -> St("await_fetch", l2, Append(cs, f.call), NoResp)
          [] f.tag = "ok" ->
                Finish(rt, deals_return(rt, l2, f.v, limit), [l2 EXCEPT !.fetched = f.v], cs)
          [] OTHER -> Finish(rt, f, l2, cs)

Proceed(rt, o, l, cs, limit) ==
    IF o.tag = "fetch" THEN ToFetch(rt, o, l, cs, limit) ELSE Finish(rt, o, l, cs)

\* poe_search_by_name_or_type returned ret = (which, json)
ItemSearchReturned(ret, cs) ==
    IF route = "/deals"
    THEN Proceed(route, deals_ids(ret.which, ret.search, req.limit),
                 [loc EXCEPT !.which = ret.which, !.search = ret.search], cs, req.limit)
    ELSE Finish(route, debug_body(route, loc, ret), loc, cs)

\* the handler's step on the reply r to the search by 'type'
TypeStep(r) ==
    LET a  == type_attempt(r)
        cs == Answered(calls, r, a.tag = "ok")
    IN  CASE a.tag = "attempt2" ->
                St("await_name", loc, Append(cs, SearchCall("search_name", loc.target)), NoResp)
          [] a.tag = "ok" -> ItemSearchReturned(a.v, cs)
          [] OTHER -> Finish(route, a, loc, cs)

\* the handler's step on the reply r to the search by 'name'
NameStep(r) ==
    LET a  == name_attempt(r)
        cs == Answered(calls, r, a.tag = "ok")
    IN  IF a.tag = "ok" THEN ItemSearchReturned(a.v, cs) ELSE Finish(route, a, loc, cs)

\* SearchByIdStep that asks once more when the marketplace answers 429
SearchByIdStepRetry(r) ==
    LET s  == poe_search_by_id(r)
        cs == Answered(calls, r, s.tag = "ok")
    IN  IF s.tag = "http" /\ s.code = 429 /\ Len(calls) < 2
        THEN St("await_search_id", loc,
                Append(cs, SearchIdCall(loc.parts.v.realm, loc.parts.v.league,
                                        loc.parts.v.qid)), NoResp)
        ELSE IF s.tag # "ok" THEN Finish(route, s, loc, cs)
        ELSE IF route \in DealsRoutes
             THEN Proceed(route,
                          by_id_ids(route, loc.search_url, s.v, loc.parts.v.qid, req.limit),
                          [loc EXCEPT !.search = s.v], cs, req.limit)
             ELSE Finish(route, debug_body(route, loc, s.v), loc, cs)

\* the handler's step on the reply r to the search by id
SearchByIdStep(r) ==
    LET s  == poe_search_by_id(r)
        cs == Answered(calls, r, s.tag = "ok")
    IN  IF s.tag # "ok" THEN Finish(route, s, loc, cs)
        ELSE IF route \in DealsRoutes
             THEN Proceed(route,
                          by_id_ids(route, loc.search_url, s.v, loc.parts.v.qid, req.limit),
                          [loc EXCEPT !.search = s.v], cs, req.limit)
             ELSE Finish(route, debug_body(route, loc, s.v), loc, cs)

\* the handler's step on the reply r to the fetch
FetchStep(r) ==
    LET f  == checked_json(r)
        cs == Answered(calls, r, f.tag = "ok")
    IN  IF f.tag = "ok"
        THEN Finish(route, deals_return(route, loc, f.v, req.limit),
                    [loc EXCEPT !.fetched = f.v], cs)
        ELSE Finish(route, f, loc, cs)

\* target = (item or DEFAULT_ITEM).strip()
Target(item) == Strip(IF item.some /\ item.v # <<>> THEN item.v ELSE DEFAULT_ITEM)

\* deals, up to the first outbound call
DealsBegin(item) ==
    IF Target(item) = <<>>
    THEN St("done", Loc0, <<>>, [items |-> <<>>, error |-> <<"missing_item">>])
    ELSE St("await_type", [Loc0 EXCEPT !.target = Target(item)],
            <<SearchCall("search_type", Target(item))>>, NoResp)

\* what the handler of rt returns when parse_trade_url gives None
Unresolved(rt) ==
    CASE rt = "/deals_from_env" -> [items |-> <<>>, error |-> <<"no_query_id_env">>]
      [] rt = "/deals_by_url" -> [items |-> <<>>, error |-> <<"bad_url">>]
      [] rt = "/_debug/search_from_env" ->
            [ok |-> FALSE, why |-> <<"no_query_id_env">>, query_id_env |-> QUERY_ID_ENV]
      [] OTHER -> [ok |-> FALSE, why |-> <<"bad_url">>]

\* a handler that starts from a trade reference, up to the first outbound call
ByIdBegin(rt, url_or_id) ==
    LET parts == parse_trade_url(Some(url_or_id))
    IN  IF ~parts.some THEN St("done", Loc0, <<>>, Unresolved(rt))
        ELSE LET c == SearchIdCall(parts.v.realm, parts.v.league, parts.v.qid)
             IN  St("await_search_id",
                    [Loc0 EXCEPT !.parts = parts, !.search_url = c.url], <<c>>, NoResp)

Apply(st) ==
    /\ pc' = st.pc
    /\ loc' = st.loc
    /\ calls' = st.calls
    /\ resp' = st.resp

-----------------------------------------------------------------------------
(* Requests and environments of the model *)

Limits == 1..MaxLimit

Items == {PyNone, Some(<<" ">>), Some(<<" ", "Doom", " ">>)}

TradeUrl == SITE \o TRADE_URL_LIT \o <<"poe2", "/", "LeagueX", "/", "abc123">>

Urls == {TradeUrl \o <<"?", "x">>, <<"abc123">>, <<"x">>, <<>>, <<"/", "abc123">>}

Configs ==
    {[DEFAULT_ITEM |-> <<"Sapphire", " ", "Ring">>, QUERY_ID |-> <<" ", "abc123", " ">>],
     [DEFAULT_ITEM |-> <<" ">>, QUERY_ID |-> <<>>]}

-----------------------------------------------------------------------------
(* Actions *)

env == <<DEFAULT_ITEM, QUERY_ID_ENV>>
harness == <<p_in, p_out>>

deals ==
    /\ pc = "idle"
    /\ \E item \in Items, limit \in Limits :
        /\ route' = "/deals"
        /\ req' = [Req0 EXCEPT !.item = item, !.limit = limit]
        /\ Apply(DealsBegin(item))
    /\ UNCHANGED <<env, harness>>

deals_from_env ==
    /\ pc = "idle"
    /\ \E limit \in Limits :
        /\ route' = "/deals_from_env"
        /\ req' = [Req0 EXCEPT !.limit = limit]
        /\ Apply(ByIdBegin("/deals_from_env", QUERY_ID_ENV))
    /\ UNCHANGED <<env, harness>>

deals_by_url ==
    /\ pc = "idle"
    /\ \E url \in Urls, limit \in Limits :
        /\ route' = "/deals_by_url"
        /\ req' = [Req0 EXCEPT !.url = url, !.limit = limit]
        /\ Apply(ByIdBegin("/deals_by_url", url))
    /\ UNCHANGED <<env, harness>>

debug_search_from_env ==
    /\ pc = "idle"
    /\ route' = "/_debug/search_from_env"
    /\ req' = Req0
    /\ Apply(ByIdBegin("/_debug/search_from_env", QUERY_ID_ENV))
    /\ UNCHANGED <<env, harness>>

debug_search_by_url ==
    /\ pc = "idle"
    /\ \E url \in Urls :
        /\ route' = "/_debug/search_by_url"
        /\ req' = [Req0 EXCEPT !.url = url]
        /\ Apply(ByIdBegin("/_debug/search_by_url", url))
    /\ UNCHANGED <<env, harness>>

debug_search_by_item ==
    /\ pc = "idle"
    /\ \E item \in Items \ {PyNone} :
        /\ route' = "/_debug/search_by_item"
        /\ req' = [Req0 EXCEPT !.item = item]
        /\ Apply(St("await_type", [Loc0 EXCEPT !.target = Strip(item.v)],
                    <<SearchCall("search_type", Strip(item.v))>>, NoResp))
    /\ UNCHANGED <<env, harness>>

TypeReply ==
    /\ pc = "await_type"
    /\ \E r \in SearchReplies : Apply(TypeStep(r))
    /\ UNCHANGED <<env, harness, route, req>>

NameReply ==
    /\ pc = "await_name"
    /\ \E r \in SearchReplies : Apply(NameStep(r))
    /\ UNCHANGED <<env, harness, route, req>>

SearchByIdReply ==
    /\ pc = "await_search_id"
    /\ \E r \in SearchReplies : Apply(SearchByIdStep(r))
    /\ UNCHANGED <<env, harness, route, req>>

FetchReply ==
    /\ pc = "await_fetch"
    /\ \E r \in FetchReplies : Apply(FetchStep(r))
    /\ UNCHANGED <<env, harness, route, req>>

Init ==
    /\ \E c \in Configs :
        /\ DEFAULT_ITEM = c.DEFAULT_ITEM
        /\ QUERY_ID_ENV = Strip(c.QUERY_ID)
    /\ pc = "idle"
    /\ route = "none"
    /\ req = Req0
    /\ loc = Loc0
    /\ calls = <<>>
    /\ resp = NoResp
    /\ p_in = [form |-> "none"]
    /\ p_out = [called |-> FALSE]

Next ==
    \/ deals
    \/ deals_from_env
    \/ deals_by_url
    \/ debug_search_from_env
    \/ debug_search_by_url
    \/ debug_search_by_item
    \/ TypeReply
    \/ NameReply
    \/ SearchByIdReply
    \/ FetchReply

Spec == Init /\ [][Next]_vars

-----------------------------------------------------------------------------
(* parse_trade_url on its own: the inputs, and the call *)

Prefixes ==
    {<<>>, SITE, <<"x">>,
     TRADE_URL_LIT \o <<"x", "/", "x">>,
     TRADE_URL_LIT \o <<"x", "/", "x", "/", "x">>}
Heads == {TRADE_URL_LIT, <<"/", "search", "/">>, <<"trade2", "/", "search", "/">>}
Segs == {<<>>, <<"x">>, <<"poe2">>, <<"x", "?">>, <<"#">>}
QSegs == {<<>>, <<"x">>, <<"abc123">>, <<"x", "x">>}
Suffixes == {<<>>, <<"?", "x">>, <<"#", "x">>, <<"/", "x">>, <<"?", "/", "x", "#">>}

FreeAtoms == {"/", "?", "#", "x", "trade2"}
XRun(k) == [i \in 1..k |-> "x"]

UrlInputs ==
    {[form |-> "url", pre |-> pre, head |-> head, r |-> r, l |-> l, q |-> q, suf |-> suf,
      arg |-> Some(pre \o head \o r \o <<"/">> \o l \o <<"/">> \o q \o suf)] :
        pre \in Prefixes, head \in Heads, r \in Segs, l \in Segs, q \in QSegs,
        suf \in Suffixes}

FreeInputs ==
    {[form |-> "free", arg |-> Some(s)] :
        s \in UNION {[1..k -> FreeAtoms] : k \in 0..3}
              \cup {XRun(k) : k \in 0..MaxRun}
              \cup {<<"abc123">>, <<" ", "abc123">>, <<"x", "?", "#", "x", "x", "x">>}}
    \cup {[form |-> "free", arg |-> PyNone]}

ParseInit ==
    /\ DEFAULT_ITEM = <<"Sapphire", " ", "Ring">>
    /\ QUERY_ID_ENV = <<>>
    /\ pc = "parser"
    /\ route = "none"
    /\ req = Req0
    /\ loc = Loc0
    /\ calls = <<>>
    /\ resp = NoResp
    /\ p_in \in UrlInputs \cup FreeInputs
    /\ p_out = [called |-> FALSE]

ParseCall ==
    /\ pc = "parser"
    /\ ~p_out.called
    /\ p_out' = [called |-> TRUE, result |-> parse_trade_url(p_in.arg)]
    /\ UNCHANGED <<env, pc, route, req, loc, calls, resp, p_in>>

ParseNext == ParseCall

SpecParse == ParseInit /\ [][ParseNext]_vars

-----------------------------------------------------------------------------
(* Properties of parse_trade_url (under SpecParse) *)

HasAtom(s, atoms) == \E i \in 1..Len(s) : s[i] \in atoms

\* r, l and q are non-empty segments without "/", q without "?" and "#", and what
\* follows q is nothing, a query string or a fragment
PathShape(i) ==
    /\ i.form = "url"
    /\ i.r # <<>> /\ i.l # <<>> /\ i.q # <<>>
    /\ ~HasAtom(i.r, {"/"}) /\ ~HasAtom(i.l, {"/"})
    /\ ~HasAtom(i.q, {"/", "?", "#"})
    /\ (i.suf = <<>> \/ Head(i.suf) \in {"?", "#"})

LitAt(s, k) ==
    /\ k + Len(TRADE_URL_LIT) - 1 <= Len(s)
    /\ SubSeq(s, k, k + Len(TRADE_URL_LIT) - 1) = TRADE_URL_LIT

\* the path starts at the first "/trade2/search/" of the input
FirstTradeSearch(i) ==
    /\ i.head = TRADE_URL_LIT
    /\ \A k \in 1..Len(i.pre) : ~LitAt(i.arg.v, k)

Triple(i) == Some([realm |-> i.r, league |-> i.l, qid |-> i.q])

\* C4 (as stated): an input that contains a path /search/{r}/{l}/{q}, optionally
\* followed by a query string or a fragment, parses to exactly (r, l, q).
OrigC4 ==
    (p_out.called /\ PathShape(p_in)) => p_out.result = Triple(p_in)

\* C4 (amended): an input that contains /trade2/search/{r}/{l}/{q}, optionally
\* followed by ?... or #..., this being the first "/trade2/search/" of the input,
\* parses to exactly (r, l, q); the query id holds no "/", "?" or "#" and nothing
\* of what follows it.
ThmC4 ==
    (p_out.called /\ PathShape(p_in) /\ FirstTradeSearch(p_in)) =>
        /\ p_out.result = Triple(p_in)
        /\ ~HasAtom(p_out.result.v.qid, {"/", "?", "#"})

WitC4 ==
    /\ p_out.called
    /\ PathShape(p_in) /\ FirstTradeSearch(p_in)
    /\ p_in.pre = SITE
    /\ p_in.suf = <<"?", "x">>
    /\ p_out.result.some
    /\ p_out.result.v.qid = <<"abc123">>

NoSlash(s) == \A i \in 1..Len(s) : s[i] # "/"

\* C5: for an input that does not match the URL pattern, the result is
\* (REALM, the encoded LEAGUE, input) exactly when the input has no "/" and at
\* least 6 characters; the result is None for every input that is missing or
\* empty, shorter than 6 characters, or that has a "/" and does not match.
ThmC5 ==
    p_out.called =>
        /\ ~p_in.arg.some => p_out.result = PyNone
        /\ p_in.arg.some =>
            LET s == p_in.arg.v
                matched == TRADE_URL_RE_search(s).some
            IN  /\ ~matched =>
                    /\ p_out.result.some <=> (NoSlash(s) /\ StrLen(s) >= 6)
                    /\ p_out.result.some =>
                        p_out.result.v = [realm |-> <<"poe2">>,
                                          league |-> quote(LEAGUE_RAW), qid |-> s]
                /\ s = <<>> => p_out.result = PyNone
                /\ StrLen(s) < 6 => p_out.result = PyNone
                /\ (~NoSlash(s) /\ ~matched) => p_out.result = PyNone

WitC5 ==
    /\ p_out.called
    /\ p_in.arg.some
    /\ p_in.arg.v = XRun(6)
    /\ p_out.result.some
    /\ p_out.result.v.qid = XRun(6)
    /\ p_out.result.v.league = <<"Dawn", "%20", "of", "%20", "the", "%20", "Hunt">>

-----------------------------------------------------------------------------
(* Properties of the request handlers (under Spec) *)

Done == pc = "done"
SearchOps == {"search_type", "search_name", "search_id"}
IsSearch(i) == calls[i].op \in SearchOps
IsFetch(i) == calls[i].op = "fetch"
Answer(i) == calls[i].status         \* 0: none yet, -1: no reply (transport failure)
ErrorBody(b) == "items" \in DOMAIN b /\ b.items = <<>> /\ "error" \in DOMAIN b

\* target is blank; the reference does not resolve
MissingParameter == route = "/deals" /\ calls = <<>>
UnresolvableReference == route \in {"/deals_by_url", "/deals_from_env"} /\ calls = <<>>

OrigC2 ==
    /\ Len(calls) <= 2
    /\ Cardinality({i \in 1..Len(calls) : IsSearch(i)}) <= 1
    /\ \A i \in 1..Len(calls) : IsFetch(i) => i > 1 /\ IsSearch(i - 1) /\ calls[i - 1].ok

\* C2 (amended): every request issues at most three outbound calls: on /deals and
\* /_debug/search_by_item at most two searches, by 'type' and then, when that one
\* did not return, by 'name'; on the other routes one search; then at most one
\* fetch, which is the last call and follows a search that succeeded; the debug
\* routes never fetch.
ThmC2 ==
    /\ Len(calls) <= 3
    /\ \A i \in 1..Len(calls) :
        /\ IsFetch(i) => i = Len(calls) /\ i > 1 /\ IsSearch(i - 1) /\ calls[i - 1].ok
        /\ IsFetch(i) => route \in DealsRoutes
        /\ IsSearch(i) => i <= 2
        /\ (IsSearch(i) /\ i = 2) =>
            /\ route \in {"/deals", "/_debug/search_by_item"}
            /\ calls[1].op = "search_type" /\ ~calls[1].ok
            /\ calls[2].op = "search_name"
        /\ (IsSearch(i) /\ i = 1) =>
            calls[1].op = (IF route \in {"/deals", "/_debug/search_by_item"}
                           THEN "search_type" ELSE "search_id")

WitC2 ==
    /\ Done
    /\ route = "/deals"
    /\ Len(calls) = 3
    /\ calls[1].op = "search_type" /\ calls[2].op = "search_name" /\ calls[3].op = "fetch"
    /\ "mode" \in DOMAIN resp /\ resp.mode = "name"
    /\ Len(resp.items) = 2

\* C3: no retry: on every deals route a search answered with a non-2xx status N
\* is the last outbound call of the request, and the response is
\* {items: [], error: "http_error:N", details: the body cut to 200 characters}.
OrigC3 ==
    route \in DealsRoutes =>
        \A i \in 1..Len(calls) :
            (IsSearch(i) /\ Answer(i) > 0 /\ Answer(i) \notin 200..299) =>
                /\ i = Len(calls)
                /\ Done
                /\ ErrorBody(resp)
                /\ resp.error = <<"http_error:">> \o IntStr(Answer(i))
                /\ "details" \in DOMAIN resp /\ resp.details.len <= 200

\* C6: map_listing never raises: when the fetch returns a result list, whatever
\* its nodes (fields absent, null or not objects, null entries), the response is
\* not an error and holds the listings of the nodes, up to limit.
OrigC6 ==
    ( /\ Done /\ route \in DealsRoutes
      /\ calls # <<>> /\ IsFetch(Len(calls)) /\ calls[Len(calls)].ok
      /\ IsDict(loc.fetched)
      /\ Get(loc.fetched, "result", JNull).t = "list" ) =>
        /\ loc.exc.tag = "none"
        /\ "error" \notin DOMAIN resp
        /\ Len(resp.items) = Min(Len(Get(loc.fetched, "result", JNull).l), req.limit)

\* sub in s
Contains(s, sub) ==
    \E i \in 1..(Len(s) + 1) :
        /\ i + Len(sub) - 1 <= Len(s)
        /\ SubSeq(s, i, i + Len(sub) - 1) = sub

\* C7: on /deals_by_url and /deals_from_env every item of a successful response
\* has a tradeUrl that contains the query id of the resolved trade reference.
OrigC7 ==
    ( /\ Done /\ route \in {"/deals_by_url", "/deals_from_env"}
      /\ "items" \in DOMAIN resp /\ "error" \notin DOMAIN resp ) =>
        \A k \in 1..Len(resp.items) : Contains(resp.items[k].tradeUrl, loc.parts.v.qid)

NoIds(search) ==
    \/ "result" \notin Keys(search)
    \/ search.o.result.t = "null"
    \/ search.o.result.t = "list" /\ search.o.result.l = <<>>

\* C8: on every deals route, once a search has succeeded with no result ids, the
\* request is over: the response has an empty `items` and no `error`, and no
\* fetch was issued; no fetch call ever carries an empty id list.
ThmC8 ==
    /\ \A i \in 1..Len(calls) : IsFetch(i) => calls[i].ids # <<>>
    /\ ( /\ route \in DealsRoutes
         /\ \E i \in 1..Len(calls) : IsSearch(i) /\ calls[i].ok
         /\ IsDict(loc.search) /\ NoIds(loc.search) ) =>
            /\ Done
            /\ \A i \in 1..Len(calls) : ~IsFetch(i)
            /\ "items" \in DOMAIN resp /\ resp.items = <<>>
            /\ "error" \notin DOMAIN resp

WitC8 ==
    /\ Done
    /\ route = "/deals"
    /\ Len(calls) = 2 /\ calls[2].op = "search_name" /\ calls[2].ok
    /\ IsDict(loc.search) /\ "result" \in Keys(loc.search) /\ loc.search.o.result.t = "null"
    /\ resp = [items |-> <<>>, note |-> <<"search_ok_but_no_ids (mode=", "name", ")">>]

\* C9: the search by 'type' comes first, and a search by 'name' is issued only
\* when the search by 'type' was answered 400; the mode names the attempt whose
\* JSON is returned.
OrigC9 ==
    /\ \A i \in 1..Len(calls) :
        calls[i].op = "search_name" =>
            i = 2 /\ calls[1].op = "search_type" /\ Answer(1) = 400
    /\ (Done /\ "mode" \in DOMAIN resp) =>
        resp.mode = (IF Len(calls) >= 2 /\ calls[2].op = "search_name" THEN "name" ELSE "type")

ResultList(search) == Or(Get(search, "result", JNull), JList(<<>>)).l

\* C10: on every deals route, whatever the marketplace returns, the fetch call
\* carries at most limit ids, which are the first ids of the search result in
\* their order, and the response holds at most limit items.
ThmC10 ==
    route \in DealsRoutes =>
        /\ \A i \in 1..Len(calls) :
            IsFetch(i) =>
                /\ Len(calls[i].ids) <= req.limit
                /\ Len(calls[i].ids) = Min(req.limit, Len(ResultList(loc.search)))
                /\ \A k \in 1..Len(calls[i].ids) : calls[i].ids[k] = ResultList(loc.search)[k]
        /\ (Done /\ "items" \in DOMAIN resp) => Len(resp.items) <= req.limit

WitC10 ==
    /\ Done
    /\ route = "/deals_by_url"
    /\ req.limit = 2
    /\ Len(calls) = 2 /\ IsFetch(2) /\ calls[2].ok
    /\ Len(ResultList(loc.search)) = 3
    /\ Len(calls[2].ids) = 2
    /\ IsDict(loc.fetched) /\ Get(loc.fetched, "result", JNull).t = "list"
    /\ Len(Get(loc.fetched, "result", JNull).l) = 3
    /\ Len(resp.items) = 2

====
